---- MODULE Spec2Model ----
(***************************************************************************)
(* Model of the streaming-chat session controller of                       *)
(* src/src/hooks/useApiStreamingChat.ts (the useApiStreamingChat hook).     *)
(*                                                                         *)
(* One action is one JavaScript task: a public callback of the hook, or    *)
(* the continuation of startEventStream after one of its awaits (the fetch *)
(* or a reader.read()).  A continuation runs to the next await without     *)
(* interruption, so a whole read chunk is decoded and dispatched in one    *)
(* step.  Every invocation of startEventStream is a "stream" with its own  *)
(* position, response body and reader; the hook state (useState / useRef)  *)
(* is shared by all of them.                                               *)
(*                                                                         *)
(* Texts are sequences of one-character strings.  The response body is a   *)
(* sequence of wire tokens, and a read delivers the next one or more       *)
(* tokens of the body.  A token is a whole line with its newline: an       *)
(* event line "data: <json>" (L), the line "data: [DONE]" (DONE), a        *)
(* "data: " line that is not JSON (BAD); or it is a part of an event line  *)
(* at which a chunk boundary can fall: "data: " with the first half of the *)
(* JSON (H), and the second half of the JSON with the newline (T).         *)
(*                                                                         *)
(* The module also models the simulated hook of                            *)
(* src/src/hooks/useStreamingChat.ts (useStreamingChat), which replays a    *)
(* scripted reply with setTimeout.  Its state is a second group of         *)
(* variables (mockVars) and its behaviours are those of MockSpec; one      *)
(* action is a public callback of that hook or one timer callback.  Time   *)
(* is counted in units of 100 ms; the public callbacks are called at the   *)
(* instants at which a timer is set or due.                                *)
(***************************************************************************)
EXTENDS Integers, Sequences, FiniteSets, TLC

VARIABLES
  messages,         \* useState<Message[]>
  isLoading,        \* useState(false)
  isConnecting,     \* useState(false)
  connectionError,  \* useState<string | null>; "null" is null
  sessionId,        \* useState<string>: the n-th generated session id
  readerRef,        \* readerRef.current: a stream, or 0 for null
  streaming,        \* currentStreamingMessagesRef.current
  lastUserMessage,  \* lastUserMessageRef.current
  isStopped,        \* isStoppedRef.current
  nextId,           \* number of ids generateId() has handed out
  nStreams,         \* number of startEventStream invocations so far
  pc,               \* per stream: "none", "fetch", "read", "done"
  cancelled,        \* per stream: reader.cancel() was called
  req,              \* per stream: the request body that was posted
  cands,            \* per stream: the response bodies that start with the
                    \* tokens read so far
  pos,              \* per stream: number of body tokens read so far
  delivered,        \* body tokens read so far, all streams together
  recv,             \* history: per message id, the deltas applied since the
                    \* id last entered the streaming-id set, concatenated
  lastOp,           \* history: the step taken last
  \* useStreamingChat (the simulated hook):
  mockMessages,         \* useState<Message[]>
  mockIsLoading,        \* useState(false)
  streamingTimeoutRef,  \* streamingTimeoutRef.current: a timer id, 0 for null
  currentStreamRef,     \* currentStreamRef.current, NoCurrentStream for null
  timers,               \* the setTimeout callbacks that have not run yet
  sims,                 \* per simulateAIResponse call: its closure
  mockNextId,           \* number of ids generateId() has handed out
  nextTimer,            \* number of timers setTimeout has created
  nSims,                \* number of sendMessage calls so far
  nDeletes,             \* number of deleteMessage calls so far
  halted,               \* history: stopStreaming or clearChat was called
                        \* and sendMessage was not called since
  mockLastOp            \* history: the step taken last

vars == <<messages, isLoading, isConnecting, connectionError, sessionId,
          readerRef, streaming, lastUserMessage, isStopped, nextId,
          nStreams, pc, cancelled, req, cands, pos, delivered, recv,
          lastOp,
          mockMessages, mockIsLoading, streamingTimeoutRef, currentStreamRef,
          timers, sims, mockNextId, nextTimer, nSims, nDeletes, halted,
          mockLastOp>>

\* The variables of useApiStreamingChat.
apiVars == <<messages, isLoading, isConnecting, connectionError, sessionId,
             readerRef, streaming, lastUserMessage, isStopped, nextId,
             nStreams, pc, cancelled, req, cands, pos, delivered, recv,
             lastOp>>

\* The variables of useStreamingChat.
mockVars == <<mockMessages, mockIsLoading, streamingTimeoutRef,
              currentStreamRef, timers, sims, mockNextId, nextTimer, nSims,
              nDeletes, halted, mockLastOp>>

\* The hook state the renderer observes plus the refs, without the history.
hookState == <<messages, isLoading, isConnecting, connectionError, sessionId,
               readerRef, streaming, lastUserMessage, isStopped>>

----------------------------------------------------------------------------
\* Bounds of the model.

MaxStreams == 2
MaxTokens == 3
MaxChunk == 3

Streams == 1..MaxStreams

----------------------------------------------------------------------------
\* Inputs.

MsgIds == {"m1", "m2"}
ToolIds == {"t1", "t2"}
Deltas == {<<"a">>, <<"b">>}
Fulls == {<<"c">>, <<"d">>}
UserInputs == {<<>>, <<" ">>, <<"h">>}
ErrorMessages == {"", "srv"}

NoText == <<>>

\* '连接出现错误', the text handleError falls back to
DefaultStreamError == "stream-error"
\* '用户停止了操作', the error text stopStreaming gives a running tool call
UserStoppedError == "user-stopped"

----------------------------------------------------------------------------
\* Event model (StreamEvent) and the wire format.

Ev(type, id, content, info) ==
  [type |-> type, id |-> id, content |-> content, info |-> info]

NoEvent == Ev("none", "", NoText, "")

\* info is the status field of a tool_call_end and the message field of an
\* error event.
Events ==
  {Ev("tool_call_start", t, NoText, "") : t \in ToolIds}
  \cup {Ev("tool_call_end", t, NoText, st) : t \in ToolIds, st \in {"success", "error"}}
  \cup {Ev("text_chunk", m, d, "") : m \in MsgIds, d \in Deltas}
  \cup {Ev("message_complete", m, f, "") : m \in MsgIds, f \in Fulls}
  \cup {Ev("session_end", "", NoText, "")}
  \cup {Ev("error", "", NoText, msg) : msg \in ErrorMessages}

Tok(k, e) == [k |-> k, e |-> e]

\* "data: " + JSON + newline in one piece
EventFrame(e) == <<Tok("L", e)>>
\* the same line in two pieces
SplitFrame(e) == <<Tok("H", e), Tok("T", e)>>
DoneFrame == <<Tok("DONE", NoEvent)>>
BadFrame == <<Tok("BAD", NoEvent)>>

\* the tokens that end with a newline
EndsLine(tok) == tok.k \in {"L", "T", "DONE", "BAD"}

TextChunk(m, d) == Ev("text_chunk", m, d, "")
MessageComplete(m, f) == Ev("message_complete", m, f, "")
ToolCallStart(t) == Ev("tool_call_start", t, NoText, "")
ToolCallEnd(t, st) == Ev("tool_call_end", t, NoText, st)
SessionEnd == Ev("session_end", "", NoText, "")
ErrorEvent(msg) == Ev("error", "", NoText, msg)

\* The reply to a simple question: the text of one message, its completion
\* and the end sentinel.
SimpleReply ==
  <<EventFrame(TextChunk("m1", <<"a">>)),
    EventFrame(MessageComplete("m1", <<"c">>)), DoneFrame>>

\* The response bodies the server answers with, as sequences of frames.
Bodies ==
  << <<EventFrame(TextChunk("m1", <<"a">>)),
       EventFrame(TextChunk("m1", <<"b">>)),
       EventFrame(MessageComplete("m1", <<"c">>))>>,
     <<EventFrame(TextChunk("m1", <<"a">>)),
       EventFrame(TextChunk("m2", <<"b">>)),
       EventFrame(TextChunk("m1", <<"b">>))>>,
     <<EventFrame(TextChunk("m1", <<"a">>)),
       EventFrame(TextChunk("m2", <<"b">>)),
       EventFrame(MessageComplete("m1", <<"c">>))>>,
     <<EventFrame(TextChunk("m1", <<"a">>)),
       EventFrame(MessageComplete("m1", <<"c">>)),
       EventFrame(TextChunk("m1", <<"b">>))>>,
     <<EventFrame(TextChunk("m1", <<"a">>)), BadFrame,
       EventFrame(TextChunk("m1", <<"b">>))>>,
     <<EventFrame(TextChunk("m1", <<"a">>)), DoneFrame,
       EventFrame(TextChunk("m1", <<"b">>))>>,
     <<EventFrame(TextChunk("m1", <<"a">>)), EventFrame(ErrorEvent("srv")),
       EventFrame(TextChunk("m1", <<"b">>))>>,
     <<EventFrame(TextChunk("m1", <<"a">>)), EventFrame(SessionEnd),
       EventFrame(TextChunk("m1", <<"b">>))>>,
     <<EventFrame(ToolCallStart("t1")),
       EventFrame(ToolCallEnd("t1", "success")),
       EventFrame(ToolCallEnd("t1", "error"))>>,
     <<EventFrame(ToolCallStart("t1")), EventFrame(ToolCallStart("t1")),
       EventFrame(ErrorEvent(""))>>,
     <<EventFrame(ToolCallStart("t1")),
       EventFrame(TextChunk("m1", <<"a">>)), DoneFrame>>,
     <<EventFrame(ToolCallStart("t1")), EventFrame(ToolCallStart("t2")),
       EventFrame(ToolCallEnd("t1", "success"))>>,
     <<SplitFrame(TextChunk("m1", <<"a">>)),
       EventFrame(MessageComplete("m1", <<"c">>))>>,
     SimpleReply,
     <<EventFrame(TextChunk("m1", <<"a">>)),
       EventFrame(MessageComplete("m1", <<"c">>)),
       EventFrame(MessageComplete("m1", <<"d">>))>>,
     <<EventFrame(TextChunk("m1", <<"a">>)),
       EventFrame(MessageComplete("m1", <<"c">>)),
       EventFrame(SessionEnd)>> >>

BodyIds == 1..Len(Bodies)

RECURSIVE Flatten(_)
Flatten(frames) ==
  IF frames = <<>> THEN <<>> ELSE Head(frames) \o Flatten(Tail(frames))

\* The bodies as token sequences.
BodyTokens == [b \in BodyIds |-> Flatten(Bodies[b])]

\* The bodies that start with the first n tokens of body b.
SamePrefix(b, n) ==
  {c \in BodyIds : /\ Len(BodyTokens[c]) >= n
                   /\ SubSeq(BodyTokens[c], 1, n) = SubSeq(BodyTokens[b], 1, n)}

----------------------------------------------------------------------------
\* The decoder of the read loop: chunk.split('\n'), line.startsWith('data: '),
\* line.slice(6).trim(), the [DONE] test and JSON.parse.

RECURSIVE SplitAcc(_, _)
SplitAcc(chunk, cur) ==
  IF chunk = <<>> THEN <<cur>>
  ELSE IF EndsLine(Head(chunk))
         THEN <<Append(cur, Head(chunk))>> \o SplitAcc(Tail(chunk), <<>>)
  ELSE SplitAcc(Tail(chunk), Append(cur, Head(chunk)))

\* chunk.split('\n')
SplitLines(chunk) == SplitAcc(chunk, <<>>)

\* line.startsWith('data: ')
StartsWithData(line) ==
  line # <<>> /\ Head(line).k \in {"L", "H", "DONE", "BAD"}

\* line.slice(6).trim(): the first token loses its "data: "
SliceData(line) ==
  [i \in 1..Len(line) |->
     IF i = 1
       THEN Tok(CASE line[1].k = "L" -> "json"
                  [] line[1].k = "H" -> "h"
                  [] line[1].k = "DONE" -> "[DONE]"
                  [] OTHER -> "garbage", line[1].e)
       ELSE line[i]]

\* data === '[DONE]'
IsDone(data) == data = <<Tok("[DONE]", NoEvent)>>

\* JSON.parse(data) returns: the whole JSON of one event, in one piece or in
\* its two halves, and nothing else
JsonParses(data) ==
  \/ Len(data) = 1 /\ data[1].k = "json"
  \/ /\ Len(data) = 2
     /\ data[1].k = "h"
     /\ data[2].k = "T"
     /\ data[1].e = data[2].e

JsonParse(data) == data[1].e

\* What the loop body does with one line: nothing (no "data: " prefix), the
\* [DONE] return, the dispatch of a parsed event, or the warning of the catch.
Item(kind, e) == [kind |-> kind, e |-> e]

DecodeLine(line) ==
  IF ~StartsWithData(line) THEN <<>>
  ELSE IF IsDone(SliceData(line)) THEN <<Item("done", NoEvent)>>
  ELSE IF JsonParses(SliceData(line))
         THEN <<Item("event", JsonParse(SliceData(line)))>>
  ELSE <<Item("bad", NoEvent)>>

RECURSIVE DecodeLines(_)
DecodeLines(lines) ==
  IF lines = <<>> THEN <<>>
  ELSE DecodeLine(Head(lines)) \o DecodeLines(Tail(lines))

\* The items of one read chunk, in line order.
DecodeChunk(chunk) == DecodeLines(SplitLines(chunk))

----------------------------------------------------------------------------
\* Messages.

GenIds == <<"g1", "g2", "g3", "g4", "g5", "g6", "g7", "g8", "g9", "g10",
            "g11", "g12", "g13", "g14", "g15", "g16">>

\* generateId(): Date.now() plus a random suffix, never the same twice
GenId(n) == GenIds[n]

\* The time a tool call has no start time or duration for.
NoTime == 0 - 1

NoTool == [id |-> "", status |-> "none", error |-> "", ended |-> FALSE,
           result |-> "", startTime |-> NoTime, duration |-> NoTime]

Msg(id, sender, type, text, status, tool) ==
  [id |-> id, sender |-> sender, type |-> type, text |-> text,
   status |-> status, tool |-> tool]

\* content.trim() === ''
RECURSIVE TrimLeft(_)
TrimLeft(t) ==
  IF t # <<>> /\ Head(t) = " " THEN TrimLeft(Tail(t)) ELSE t

RECURSIVE TrimRight(_)
TrimRight(t) ==
  IF t # <<>> /\ t[Len(t)] = " " THEN TrimRight(SubSeq(t, 1, Len(t) - 1)) ELSE t

Trim(t) == TrimRight(TrimLeft(t))

----------------------------------------------------------------------------
\* The event handlers.  They work on a record of the state a read
\* continuation can change; returned is set once startEventStream has
\* executed a return statement.  now is Date.now() during the continuation:
\* time is counted in the body tokens received before it.

Ctl ==
  [messages |-> messages, streaming |-> streaming, isLoading |-> isLoading,
   isConnecting |-> isConnecting, connectionError |-> connectionError,
   nextId |-> nextId, recv |-> recv, now |-> delivered, returned |-> FALSE]

\* The Set an updater passed to setMessages reads through its closure.  React
\* runs the updater at once only when the component has no update pending;
\* otherwise it runs it during the next render, after the handler has
\* cleared that very Set.
UpdaterSees(set, deferred) == IF deferred THEN {} ELSE set

\* handleToolCallStart
HandleToolCallStart(st, d) ==
  IF isStopped THEN st
  ELSE [st EXCEPT
          !.messages = Append(@,
             Msg(GenId(st.nextId + 1), "assistant", "tool_call", NoText,
                 "delivered",
                 [id |-> d.id, status |-> "running", error |-> "",
                  ended |-> FALSE, result |-> "", startTime |-> st.now,
                  duration |-> NoTime])),
          !.nextId = @ + 1]

\* handleToolCallEnd patching every tool call, whatever its tool id
HandleToolCallEndAnyTool(st, d) ==
  IF isStopped THEN st
  ELSE [st EXCEPT
          !.messages = [i \in 1..Len(st.messages) |-> LET msg == st.messages[i] IN
             IF msg.type = "tool_call"
               THEN [msg EXCEPT
                       !.tool = [@ EXCEPT
                          !.status = IF d.info = "success" THEN "success"
                                     ELSE "error",
                          !.result = "result",
                          !.error = IF d.info = "error" THEN "result" ELSE "",
                          !.ended = TRUE,
                          !.duration = IF msg.tool.startTime # NoTime
                                         THEN st.now - msg.tool.startTime
                                         ELSE NoTime]]
               ELSE msg]]

\* handleToolCallEnd
HandleToolCallEnd(st, d) ==
  IF isStopped THEN st
  ELSE [st EXCEPT
          !.messages = [i \in 1..Len(st.messages) |-> LET msg == st.messages[i] IN
             IF msg.type = "tool_call" /\ msg.tool.id = d.id
               THEN [msg EXCEPT
                       !.tool = [@ EXCEPT
                          !.status = IF d.info = "success" THEN "success"
                                     ELSE "error",
                          !.result = "result",
                          !.error = IF d.info = "error" THEN "result" ELSE "",
                          !.ended = TRUE,
                          !.duration = IF msg.tool.startTime # NoTime
                                         THEN st.now - msg.tool.startTime
                                         ELSE NoTime]]
               ELSE msg]]

\* handleTextChunk without its stop-flag check
HandleTextChunkIgnoringStop(st, d) ==
  IF d.id \notin st.streaming
    THEN [st EXCEPT
            !.streaming = @ \cup {d.id},
            !.messages = Append(@,
               Msg(d.id, "assistant", "text", d.content, "pending", NoTool)),
            !.recv = [@ EXCEPT ![d.id] = d.content]]
    ELSE [st EXCEPT
            !.messages = [i \in 1..Len(st.messages) |-> LET msg == st.messages[i] IN
               IF msg.id = d.id
                 THEN [msg EXCEPT !.text = @ \o d.content]
                 ELSE msg],
            !.recv = [@ EXCEPT ![d.id] = @ \o d.content]]

\* handleTextChunk appending the delta to every text message in the list
HandleTextChunkAnyId(st, d) ==
  IF isStopped THEN st
  ELSE IF d.id \notin st.streaming
    THEN [st EXCEPT
            !.streaming = @ \cup {d.id},
            !.messages = Append(@,
               Msg(d.id, "assistant", "text", d.content, "pending", NoTool)),
            !.recv = [@ EXCEPT ![d.id] = d.content]]
    ELSE [st EXCEPT
            !.messages = [i \in 1..Len(st.messages) |-> LET msg == st.messages[i] IN
               IF msg.type = "text" /\ msg.sender = "assistant"
                 THEN [msg EXCEPT !.text = @ \o d.content]
                 ELSE msg],
            !.recv = [@ EXCEPT ![d.id] = @ \o d.content]]

\* handleTextChunk
HandleTextChunk(st, d) ==
  IF isStopped THEN st
  ELSE IF d.id \notin st.streaming
    THEN [st EXCEPT
            !.streaming = @ \cup {d.id},
            !.messages = Append(@,
               Msg(d.id, "assistant", "text", d.content, "pending", NoTool)),
            !.recv = [@ EXCEPT ![d.id] = d.content]]
    ELSE [st EXCEPT
            !.messages = [i \in 1..Len(st.messages) |-> LET msg == st.messages[i] IN
               IF msg.id = d.id
                 THEN [msg EXCEPT !.text = @ \o d.content]
                 ELSE msg],
            !.recv = [@ EXCEPT ![d.id] = @ \o d.content]]

\* handleMessageComplete appending the full text instead of overwriting
HandleMessageCompleteAppending(st, d) ==
  IF isStopped THEN st
  ELSE [st EXCEPT
          !.messages = [i \in 1..Len(st.messages) |-> LET msg == st.messages[i] IN
             IF msg.id = d.id
               THEN [msg EXCEPT !.text = @ \o d.content, !.status = "delivered"]
               ELSE msg],
          !.streaming = @ \ {d.id},
          !.isLoading = IF st.streaming \ {d.id} = {} THEN FALSE ELSE @]

\* handleMessageComplete ending the loading state without looking at the set
HandleMessageCompleteAlwaysIdle(st, d) ==
  IF isStopped THEN st
  ELSE [st EXCEPT
          !.messages = [i \in 1..Len(st.messages) |-> LET msg == st.messages[i] IN
             IF msg.id = d.id
               THEN [msg EXCEPT !.text = d.content, !.status = "delivered"]
               ELSE msg],
          !.streaming = @ \ {d.id},
          !.isLoading = FALSE]

\* handleMessageComplete
HandleMessageComplete(st, d) ==
  IF isStopped THEN st
  ELSE [st EXCEPT
          !.messages = [i \in 1..Len(st.messages) |-> LET msg == st.messages[i] IN
             IF msg.id = d.id
               THEN [msg EXCEPT !.text = d.content, !.status = "delivered"]
               ELSE msg],
          !.streaming = @ \ {d.id},
          !.isLoading = IF st.streaming \ {d.id} = {} THEN FALSE ELSE @]

\* handleError
HandleError(st, d, deferred) ==
  [st EXCEPT
     !.connectionError = IF d.info = "" THEN DefaultStreamError ELSE d.info,
     !.isLoading = FALSE,
     !.isConnecting = FALSE,
     !.messages =
        IF st.streaming # {}
          THEN [i \in 1..Len(st.messages) |-> LET msg == st.messages[i] IN
                 IF msg.id \in UpdaterSees(st.streaming, deferred)
                   THEN [msg EXCEPT !.status = "failed"]
                   ELSE msg]
          ELSE @,
     !.streaming = {}]

\* The [DONE] branch and the session_end case: setIsLoading(false), clear the
\* streaming-id set, return.
EndOfStream(st) ==
  [st EXCEPT !.isLoading = FALSE, !.streaming = {}, !.returned = TRUE]

\* switch (event.type)
Dispatch(st, e, deferred) ==
  CASE e.type = "tool_call_start" -> HandleToolCallStart(st, e)
    [] e.type = "tool_call_end" -> HandleToolCallEnd(st, e)
    [] e.type = "text_chunk" -> HandleTextChunk(st, e)
    [] e.type = "message_complete" -> HandleMessageComplete(st, e)
    [] e.type = "session_end" -> EndOfStream(st)
    [] e.type = "error" ->
         [HandleError(st, e, deferred) EXCEPT !.returned = TRUE]
    [] OTHER -> st

\* the loop body with a catch that lets the parse error end the stream as a
\* connection error
ApplyItemFailingOnBadLine(st, item, deferred) ==
  CASE item.kind = "done" -> EndOfStream(st)
    [] item.kind = "event" -> Dispatch(st, item.e, deferred)
    [] OTHER -> [st EXCEPT !.connectionError = "parse-error",
                           !.isLoading = FALSE,
                           !.isConnecting = FALSE,
                           !.returned = TRUE]

ApplyItem(st, item, deferred) ==
  CASE item.kind = "done" -> EndOfStream(st)
    [] item.kind = "event" -> Dispatch(st, item.e, deferred)
    [] OTHER -> st

\* for (const line of lines) { ... }: the items in order, up to a return
RECURSIVE ApplyItems(_, _, _)
ApplyItems(st, items, deferred) ==
  IF items = <<>> \/ st.returned THEN st
  ELSE ApplyItems(ApplyItem(st, Head(items), deferred), Tail(items), deferred)

\* One turn of the while loop on a chunk that was read.
ProcessChunk(st, chunk, deferred) ==
  ApplyItems(st, DecodeChunk(chunk), deferred)

----------------------------------------------------------------------------
\* useStreamingChat: the simulated hook.

\* Number of sendMessage calls and of deleteMessage calls of a behaviour of
\* MockSpec.
MaxSends == 2
MaxDeletes == 1

\* options.streamDelay and options.chunkSize, as passed by the caller: a
\* tick of 100 ms, chunks of two characters.
streamDelay == 1
chunkSize == 2

\* The delays of the other timers, in units of 100 ms.
ReplyDelay == 3
ToolDelays == {15, 25}
GapAfterTool == 3
FirstTickDelay == 5
GapAfterText == 8

ToolStep(tool) == [type |-> "tool_call", tool |-> tool, content |-> NoText]
TextStep(content) == [type |-> "text", tool |-> "", content |-> content]

\* The scripted replies: the first two of AI_RESPONSES (all four are a tool
\* call, a text, a tool call and a text), the texts abbreviated to two or
\* three characters.
AI_RESPONSES ==
  << << ToolStep("web_search"), TextStep(<<"a", "b", "c">>),
        ToolStep("code_generator"), TextStep(<<"d", "e">>) >>,
     << ToolStep("project_analyzer"), TextStep(<<"f", "g">>),
        ToolStep("performance_checker"), TextStep(<<"h", "i", "j">>) >> >>

\* Math.floor(Math.random() * AI_RESPONSES.length)
ResponseIndexes == 1..Len(AI_RESPONSES)

Sims == 1..MaxSends

\* The input of sendMessage.
MockInputs == {<<"h">>}

\* content.tool_call of a message; NoToolCall for a text message
NoToolCall == [name |-> "", status |-> "none"]

\* A message; deletable is FALSE where the field is absent.
MockMsg(id, sender, type, text, status, tool_call, deletable) ==
  [id |-> id, sender |-> sender, type |-> type, text |-> text,
   status |-> status, tool_call |-> tool_call, deletable |-> deletable]

\* currentStreamRef.current === null
NoCurrentStream == [messageId |-> 0, fullContent |-> NoText, currentIndex |-> 0]

\* The closure of a simulateAIResponse call; response 0 before the call.
NoSim == [response |-> 0, stepIndex |-> 0]

MockOp(op, sim) == [op |-> op, sim |-> sim]

\* The state of the simulated hook that its callbacks read and write.
MockCtl ==
  [messages |-> mockMessages, isLoading |-> mockIsLoading,
   streamingTimeoutRef |-> streamingTimeoutRef,
   currentStreamRef |-> currentStreamRef, timers |-> timers, sims |-> sims,
   nextId |-> mockNextId, nextTimer |-> nextTimer]

\* setTimeout(callback, delay): the id of the new timer is st.nextTimer + 1
SetTimeout(st, kind, sim, msg, delay) ==
  [st EXCEPT !.timers = @ \cup {[id |-> st.nextTimer + 1, kind |-> kind,
                                 sim |-> sim, msg |-> msg, rem |-> delay]},
             !.nextTimer = @ + 1]

\* clearTimeout(id): nothing happens when the timer has run already
ClearTimeout(st, id) ==
  [st EXCEPT !.timers = {t \in @ : t.id # id}]

\* prev.map(msg => msg.id === id ? { ...msg, content: { text } } : msg)
SetText(msgs, id, text) ==
  [i \in 1..Len(msgs) |->
     IF msgs[i].id = id
     THEN [msgs[i] EXCEPT !.text = text, !.tool_call = NoToolCall]
     ELSE msgs[i]]

\* ... ? { ...msg, content: { text }, status: 'delivered' } : msg
SetDelivered(msgs, id, text) ==
  [i \in 1..Len(msgs) |->
     IF msgs[i].id = id
     THEN [msgs[i] EXCEPT !.text = text, !.tool_call = NoToolCall,
                          !.status = "delivered"]
     ELSE msgs[i]]

\* processNextStep of the simulation sim; toolDelay is the random delay of
\* a tool call.
ProcessNextStep(st, sim, toolDelay) ==
  LET steps == AI_RESPONSES[st.sims[sim].response]
      stepIndex == st.sims[sim].stepIndex
      step == steps[stepIndex + 1]
      id == st.nextId + 1
  IN IF stepIndex >= Len(steps)
     THEN [st EXCEPT !.isLoading = FALSE]
     ELSE IF step.type = "tool_call"
     THEN SetTimeout(
            [st EXCEPT !.nextId = id,
                       !.messages = Append(@,
                          MockMsg(id, "assistant", "tool_call", NoText,
                                  "delivered",
                                  [name |-> step.tool, status |-> "running"],
                                  FALSE))],
            "toolDone", sim, id, toolDelay)
     ELSE SetTimeout(
            [st EXCEPT !.nextId = id,
                       !.messages = Append(@,
                          MockMsg(id, "assistant", "text", NoText, "pending",
                                  NoToolCall, FALSE)),
                       !.currentStreamRef =
                          [messageId |-> id, fullContent |-> step.content,
                           currentIndex |-> 0]],
            "stream", sim, 0, FirstTickDelay)

\* simulateAIResponse, with the reply that Math.random() selects
SimulateAIResponse(st, sim, responseIndex, toolDelay) ==
  ProcessNextStep(
    [st EXCEPT !.isLoading = TRUE,
               !.sims[sim] = [response |-> responseIndex, stepIndex |-> 0]],
    sim, toolDelay)

\* The callback of the timer that completes a tool call.
ToolCallDone(st, sim, toolMessageId) ==
  SetTimeout(
    [st EXCEPT !.messages =
                  [i \in 1..Len(@) |->
                     IF @[i].id = toolMessageId
                     THEN [@[i] EXCEPT !.text = NoText,
                                       !.tool_call.status = "success"]
                     ELSE @[i]],
               !.sims[sim].stepIndex = @ + 1],
    "step", sim, 0, GapAfterTool)

\* streamForThisStep of the simulation sim
StreamForThisStep(st, sim) ==
  LET cur == st.currentStreamRef
      nextIndex == IF cur.currentIndex + chunkSize < Len(cur.fullContent)
                   THEN cur.currentIndex + chunkSize
                   ELSE Len(cur.fullContent)
      ticked == SetTimeout(
                  [st EXCEPT !.messages =
                                SetText(@, cur.messageId,
                                        SubSeq(cur.fullContent, 1, nextIndex)),
                             !.currentStreamRef.currentIndex = nextIndex],
                  "stream", sim, 0, streamDelay)
  IN IF cur = NoCurrentStream THEN st
     ELSE IF cur.currentIndex >= Len(cur.fullContent)
     THEN SetTimeout(
            [st EXCEPT !.messages =
                          SetDelivered(@, cur.messageId, cur.fullContent),
                       !.currentStreamRef = NoCurrentStream,
                       !.sims[sim].stepIndex = @ + 1],
            "step", sim, 0, GapAfterText)
     ELSE [ticked EXCEPT !.streamingTimeoutRef = ticked.nextTimer]

\* stopStreaming; its setMessages updater reads currentStreamRef.current
\* when it runs, which is after line 306 when React defers it.
MockStop(st, deferred) ==
  LET cleared == IF st.streamingTimeoutRef # 0
                 THEN [ClearTimeout(st, st.streamingTimeoutRef)
                         EXCEPT !.streamingTimeoutRef = 0]
                 ELSE st
      cur == cleared.currentStreamRef
      finished == IF cur = NoCurrentStream THEN cleared
                  ELSE [cleared EXCEPT
                          !.messages =
                             IF deferred THEN @
                             ELSE SetDelivered(@, cur.messageId,
                                               cur.fullContent),
                          !.currentStreamRef = NoCurrentStream]
  IN [finished EXCEPT !.isLoading = FALSE]

\* The state of the simulated hook after its first render.
MockInit ==
  /\ mockMessages = <<>>
  /\ mockIsLoading = FALSE
  /\ streamingTimeoutRef = 0
  /\ currentStreamRef = NoCurrentStream
  /\ timers = {}
  /\ sims = [s \in Sims |-> NoSim]
  /\ mockNextId = 0
  /\ nextTimer = 0
  /\ nSims = 0
  /\ nDeletes = 0
  /\ halted = FALSE
  /\ mockLastOp = MockOp("init", 0)

----------------------------------------------------------------------------

\* Initial state: the hook right after its first render.

MaxSessions == 2

FetchErrors == {"http-status", "body-null", "network"}
ReadError == "network"

NoReq == [message |-> NoText, sessionId |-> 0]

Op(op, s, chunk) == [op |-> op, s |-> s, chunk |-> chunk]

\* stopStreaming, called after another step or right after itself
StopOps == {"stopStreaming", "stopStreamingAgain"}

Init ==
  /\ messages = <<>>
  /\ isLoading = FALSE
  /\ isConnecting = FALSE
  /\ connectionError = "null"
  /\ sessionId = 1
  /\ readerRef = 0
  /\ streaming = {}
  /\ lastUserMessage = NoText
  /\ isStopped = FALSE
  /\ nextId = 0
  /\ nStreams = 0
  /\ pc = [s \in Streams |-> "none"]
  /\ cancelled = [s \in Streams |-> FALSE]
  /\ req = [s \in Streams |-> NoReq]
  /\ cands = [s \in Streams |-> {}]
  /\ pos = [s \in Streams |-> 0]
  /\ delivered = 0
  /\ recv = [m \in MsgIds |-> NoText]
  /\ lastOp = Op("init", 0, <<>>)
  /\ MockInit

----------------------------------------------------------------------------
\* The public callbacks.

\* startEventStream up to its await fetch(...): a new stream is connecting.
StartEventStream(message) ==
  /\ nStreams < MaxStreams
  /\ nStreams' = nStreams + 1
  /\ isStopped' = FALSE
  /\ isConnecting' = TRUE
  /\ connectionError' = "null"
  /\ pc' = [pc EXCEPT ![nStreams + 1] = "fetch"]
  /\ req' = [req EXCEPT ![nStreams + 1] =
               [message |-> message, sessionId |-> sessionId]]

\* The guard of sendMessage: !content.trim() || isLoading
SendRejected(content) == Trim(content) = <<>> \/ isLoading

\* sendMessage appending the user message as pending
SendMessagePending(content) ==
  IF SendRejected(content)
    THEN UNCHANGED vars
    ELSE /\ lastUserMessage' = content
         /\ messages' = Append(messages,
              Msg(GenId(nextId + 1), "user", "text", content, "pending", NoTool))
         /\ nextId' = nextId + 1
         /\ StartEventStream(content)
         /\ lastOp' = Op("sendMessage", nStreams + 1, <<>>)
         /\ UNCHANGED <<isLoading, sessionId, readerRef, streaming,
                        cancelled, cands, pos, delivered, recv>>

\* sendMessage(content)
SendMessage(content) ==
  IF SendRejected(content)
    THEN UNCHANGED vars
    ELSE /\ lastUserMessage' = content
         /\ messages' = Append(messages,
              Msg(GenId(nextId + 1), "user", "text", content, "sent", NoTool))
         /\ nextId' = nextId + 1
         /\ StartEventStream(content)
         /\ lastOp' = Op("sendMessage", nStreams + 1, <<>>)
         /\ UNCHANGED <<isLoading, sessionId, readerRef, streaming,
                        cancelled, cands, pos, delivered, recv>>

\* stopStreaming's updates with a notice appended to the list on every call
StopMessagesAppendingNotice(msgs, set, deferred) ==
  Append([i \in 1..Len(msgs) |->
            LET msg == msgs[i]
            IN IF msg.type = "tool_call" /\ msg.tool.status = "running"
                 THEN [msg EXCEPT
                         !.tool = [@ EXCEPT !.status = "stop",
                                            !.error = UserStoppedError,
                                            !.ended = TRUE]]
                 ELSE IF set # {} /\ msg.id \in UpdaterSees(set, deferred)
                 THEN [msg EXCEPT !.status = "delivered"]
                 ELSE msg],
         Msg("notice", "system", "system", NoText, "delivered", NoTool))

\* The two setMessages calls of stopStreaming.
StopMessages(msgs, set, deferred) ==
  LET stopped == [i \in 1..Len(msgs) |->
        LET msg == msgs[i]
        IN IF msg.type = "tool_call" /\ msg.tool.status = "running"
             THEN [msg EXCEPT
                     !.tool = [@ EXCEPT !.status = "stop",
                                        !.error = UserStoppedError,
                                        !.ended = TRUE]]
             ELSE msg]
  IN [i \in 1..Len(stopped) |->
        LET msg == stopped[i]
        IN IF set # {} /\ msg.id \in UpdaterSees(set, deferred)
             THEN [msg EXCEPT !.status = "delivered"]
             ELSE msg]

\* readerRef.current.cancel(...); readerRef.current = null
CancelReader ==
  /\ cancelled' = [s \in Streams |-> cancelled[s] \/ s = readerRef]
  /\ readerRef' = 0

\* stopStreaming()
StopStreaming ==
  \E deferred \in BOOLEAN :
    /\ isStopped' = TRUE
    /\ CancelReader
    /\ messages' = StopMessages(messages, streaming, deferred)
    /\ streaming' = {}
    /\ isLoading' = FALSE
    /\ isConnecting' = FALSE
    /\ connectionError' = "null"
    /\ lastOp' = Op(IF lastOp.op \in StopOps THEN "stopStreamingAgain"
                     ELSE "stopStreaming", 0, <<>>)
    /\ UNCHANGED <<sessionId, lastUserMessage, nextId, nStreams, pc, req,
                   cands, pos, delivered, recv>>

\* clearChat(): stopStreaming(), then the store and the session id are
\* replaced and the stop flag is reset
ClearChat ==
  /\ sessionId < MaxSessions
  /\ CancelReader
  /\ messages' = <<>>
  /\ streaming' = {}
  /\ isLoading' = FALSE
  /\ isConnecting' = FALSE
  /\ connectionError' = "null"
  /\ sessionId' = sessionId + 1
  /\ isStopped' = FALSE
  /\ lastOp' = Op("clearChat", 0, <<>>)
  /\ UNCHANGED <<lastUserMessage, nextId, nStreams, pc, req, cands, pos,
                 delivered, recv>>

\* retryLastMessage(): stopStreaming(), then startEventStream(last input)
RetryLastMessage ==
  IF lastUserMessage = NoText
    THEN UNCHANGED vars
    ELSE \E deferred \in BOOLEAN :
         /\ CancelReader
         /\ messages' = StopMessages(messages, streaming, deferred)
         /\ streaming' = {}
         /\ isLoading' = FALSE
         /\ StartEventStream(lastUserMessage)
         /\ lastOp' = Op("retryLastMessage", nStreams + 1, <<>>)
         /\ UNCHANGED <<sessionId, lastUserMessage, nextId, cands, pos,
                        delivered, recv>>

----------------------------------------------------------------------------
\* The continuations of startEventStream.

\* finally { reader.releaseLock(); readerRef.current = null }; the stream's
\* invocation is over and its response is dropped.
Finish(s) ==
  /\ pc' = [pc EXCEPT ![s] = "done"]
  /\ cands' = [cands EXCEPT ![s] = {}]
  /\ pos' = [pos EXCEPT ![s] = 0]
  /\ cancelled' = [cancelled EXCEPT ![s] = FALSE]
  /\ readerRef' = 0

\* fetch resolved with a 2xx response that has a body: lines 369-383
FetchOk(s) ==
  /\ pc[s] = "fetch"
  /\ isConnecting' = FALSE
  /\ isLoading' = TRUE
  /\ IF isStopped
       THEN Finish(s)
       ELSE /\ pc' = [pc EXCEPT ![s] = "read"]
            /\ readerRef' = s
            /\ cands' = [cands EXCEPT ![s] = BodyIds]
            /\ UNCHANGED <<pos, cancelled>>
  /\ lastOp' = Op("fetchOk", s, <<>>)
  /\ UNCHANGED <<messages, connectionError, sessionId, streaming,
                 lastUserMessage, isStopped, nextId, nStreams, req,
                 delivered, recv>>

\* the outer catch without its setIsConnecting(false)
FetchFailKeepingConnecting(s, err) ==
  /\ pc[s] = "fetch"
  /\ connectionError' = err
  /\ isLoading' = FALSE
  /\ pc' = [pc EXCEPT ![s] = "done"]
  /\ lastOp' = Op("fetchFail", s, <<>>)
  /\ UNCHANGED <<messages, sessionId, readerRef, streaming, lastUserMessage,
                 isStopped, nextId, nStreams, cancelled, req, cands, pos,
                 delivered, recv, isConnecting>>

\* fetch rejected, or resolved with a non-2xx status or without a body: the
\* outer catch
FetchFail(s, err) ==
  /\ pc[s] = "fetch"
  /\ connectionError' = err
  /\ isLoading' = FALSE
  /\ isConnecting' = FALSE
  /\ pc' = [pc EXCEPT ![s] = "done"]
  /\ lastOp' = Op("fetchFail", s, <<>>)
  /\ UNCHANGED <<messages, sessionId, readerRef, streaming, lastUserMessage,
                 isStopped, nextId, nStreams, cancelled, req, cands, pos,
                 delivered, recv>>

\* reader.read() resolved with the next k tokens of the body, which is one
\* of the bodies that fit what was read before: the chunk is decoded and
\* dispatched, then the loop either returned, or saw the stop flag at its
\* top, or awaits the next read.
Read(s, b, k, deferred) ==
  /\ pc[s] = "read"
  /\ ~cancelled[s]
  /\ b \in cands[s]
  /\ k \in 1..MaxChunk
  /\ pos[s] + k <= Len(BodyTokens[b])
  /\ delivered + k <= MaxTokens
  /\ delivered' = delivered + k
  /\ LET chunk == SubSeq(BodyTokens[b], pos[s] + 1, pos[s] + k)
         st == ProcessChunk(Ctl, chunk, deferred)
     IN /\ messages' = st.messages
        /\ streaming' = st.streaming
        /\ isLoading' = st.isLoading
        /\ isConnecting' = st.isConnecting
        /\ connectionError' = st.connectionError
        /\ nextId' = st.nextId
        /\ recv' = st.recv
        /\ IF st.returned \/ isStopped
             THEN Finish(s)
             ELSE /\ pos' = [pos EXCEPT ![s] = @ + k]
                  /\ cands' = [cands EXCEPT ![s] = SamePrefix(b, pos[s] + k)]
                  /\ UNCHANGED <<pc, readerRef, cancelled>>
        /\ lastOp' = Op("read", s, chunk)
  /\ UNCHANGED <<sessionId, lastUserMessage, isStopped, nStreams, req>>

\* reader.read() resolved with done: the server ended the body, or the
\* reader was cancelled
ReadDone(s) ==
  /\ pc[s] = "read"
  /\ Finish(s)
  /\ lastOp' = Op(IF cancelled[s] THEN "readCancelled" ELSE "readDone", s, <<>>)
  /\ UNCHANGED <<messages, isLoading, isConnecting, connectionError,
                 sessionId, streaming, lastUserMessage, isStopped, nextId,
                 nStreams, req, delivered, recv>>

\* the outer catch starting the request again by itself
ReadThrowRetrying(s) ==
  /\ pc[s] = "read"
  /\ ~cancelled[s]
  /\ nStreams < MaxStreams
  /\ pc' = [pc EXCEPT ![s] = "done", ![nStreams + 1] = "fetch"]
  /\ cands' = [cands EXCEPT ![s] = {}]
  /\ pos' = [pos EXCEPT ![s] = 0]
  /\ cancelled' = [cancelled EXCEPT ![s] = FALSE]
  /\ readerRef' = 0
  /\ nStreams' = nStreams + 1
  /\ req' = [req EXCEPT ![nStreams + 1] = req[s]]
  /\ isStopped' = FALSE
  /\ isConnecting' = TRUE
  /\ isLoading' = FALSE
  /\ connectionError' = "null"
  /\ lastOp' = Op("readThrow", s, <<>>)
  /\ UNCHANGED <<messages, sessionId, streaming, lastUserMessage, nextId,
                 delivered, recv>>

\* reader.read() rejected: inner catch rethrows, finally, outer catch
ReadThrow(s) ==
  /\ pc[s] = "read"
  /\ ~cancelled[s]
  /\ Finish(s)
  /\ connectionError' = ReadError
  /\ isLoading' = FALSE
  /\ isConnecting' = FALSE
  /\ lastOp' = Op("readThrow", s, <<>>)
  /\ UNCHANGED <<messages, sessionId, streaming, lastUserMessage, isStopped,
                 nextId, nStreams, req, delivered, recv>>

----------------------------------------------------------------------------

Next ==
  \/ (\E content \in UserInputs : SendMessage(content)) /\ UNCHANGED mockVars
  \/ StopStreaming /\ UNCHANGED mockVars
  \/ ClearChat /\ UNCHANGED mockVars
  \/ RetryLastMessage /\ UNCHANGED mockVars
  \/ (\E s \in Streams : FetchOk(s)) /\ UNCHANGED mockVars
  \/ (\E s \in Streams, err \in FetchErrors : FetchFail(s, err))
       /\ UNCHANGED mockVars
  \/ (\E s \in Streams, b \in BodyIds, k \in 1..MaxChunk, deferred \in BOOLEAN :
         Read(s, b, k, deferred))
       /\ UNCHANGED mockVars
  \/ (\E s \in Streams : ReadDone(s)) /\ UNCHANGED mockVars
  \/ (\E s \in Streams : ReadThrow(s)) /\ UNCHANGED mockVars

Spec == Init /\ [][Next]_vars

----------------------------------------------------------------------------
\* useStreamingChat: the public callbacks and the timer callbacks.

\* The assignment of the state st of the simulated hook.
MockAssign(st) ==
  /\ mockMessages' = st.messages
  /\ mockIsLoading' = st.isLoading
  /\ streamingTimeoutRef' = st.streamingTimeoutRef
  /\ currentStreamRef' = st.currentStreamRef
  /\ timers' = st.timers
  /\ sims' = st.sims
  /\ mockNextId' = st.nextId
  /\ nextTimer' = st.nextTimer

\* sendMessage(content): the user message, and the timer of the reply
MockSendMessage(content) ==
  /\ nSims < MaxSends
  /\ LET id == mockNextId + 1
     IN MockAssign(SetTimeout(
          [MockCtl EXCEPT !.nextId = id,
                          !.messages = Append(@,
                             MockMsg(id, "user", "text", content, "delivered",
                                     NoToolCall, TRUE))],
          "reply", nSims + 1, 0, ReplyDelay))
  /\ nSims' = nSims + 1
  /\ halted' = FALSE
  /\ mockLastOp' = MockOp("sendMessage", nSims + 1)
  /\ UNCHANGED nDeletes

\* stopStreaming()
MockStopStreaming(deferred) ==
  /\ MockAssign(MockStop(MockCtl, deferred))
  /\ halted' = TRUE
  /\ mockLastOp' = MockOp("stopStreaming", 0)
  /\ UNCHANGED <<nSims, nDeletes>>

\* clearChat(): stopStreaming(), then setMessages([])
MockClearChat(deferred) ==
  /\ MockAssign([MockStop(MockCtl, deferred) EXCEPT !.messages = <<>>])
  /\ halted' = TRUE
  /\ mockLastOp' = MockOp("clearChat", 0)
  /\ UNCHANGED <<nSims, nDeletes>>

\* deleteMessage(messageId), for a message of the list that the chat view
\* offers to delete (message.deletable)
DeleteMessage(messageId) ==
  /\ nDeletes < MaxDeletes
  /\ \E i \in 1..Len(mockMessages) :
       mockMessages[i].id = messageId /\ mockMessages[i].deletable
  /\ mockMessages' = SelectSeq(mockMessages, LAMBDA msg : msg.id # messageId)
  /\ nDeletes' = nDeletes + 1
  /\ mockLastOp' = MockOp("deleteMessage", 0)
  /\ UNCHANGED <<mockIsLoading, streamingTimeoutRef, currentStreamRef, timers,
                 sims, mockNextId, nextTimer, nSims, halted>>

\* The timer t is pending and its delay has elapsed.
Due(t) == t \in timers /\ t.rem = 0

\* A timer callback ran: the timer is no longer pending.
Fired(t) == [MockCtl EXCEPT !.timers = @ \ {t}]

\* The timer of sendMessage: simulateAIResponse(content)
ReplyTimer(t, responseIndex, toolDelay) ==
  /\ Due(t) /\ t.kind = "reply"
  /\ MockAssign(SimulateAIResponse(Fired(t), t.sim, responseIndex, toolDelay))
  /\ mockLastOp' = MockOp("reply", t.sim)
  /\ UNCHANGED <<nSims, nDeletes, halted>>

\* The timer of a tool call
ToolDoneTimer(t) ==
  /\ Due(t) /\ t.kind = "toolDone"
  /\ MockAssign(ToolCallDone(Fired(t), t.sim, t.msg))
  /\ mockLastOp' = MockOp("toolDone", t.sim)
  /\ UNCHANGED <<nSims, nDeletes, halted>>

\* setTimeout(processNextStep, ...)
StepTimer(t, toolDelay) ==
  /\ Due(t) /\ t.kind = "step"
  /\ MockAssign(ProcessNextStep(Fired(t), t.sim, toolDelay))
  /\ mockLastOp' = MockOp("step", t.sim)
  /\ UNCHANGED <<nSims, nDeletes, halted>>

\* setTimeout(streamForThisStep, ...)
StreamTimer(t) ==
  /\ Due(t) /\ t.kind = "stream"
  /\ MockAssign(StreamForThisStep(Fired(t), t.sim))
  /\ mockLastOp' = MockOp("stream", t.sim)
  /\ UNCHANGED <<nSims, nDeletes, halted>>

\* Time passes until the next timer is due.
Advance ==
  /\ timers # {}
  /\ \A t \in timers : t.rem > 0
  /\ LET next == CHOOSE t \in timers : \A u \in timers : t.rem <= u.rem
     IN timers' = {[t EXCEPT !.rem = @ - next.rem] : t \in timers}
  /\ mockLastOp' = MockOp("advance", 0)
  /\ UNCHANGED <<mockMessages, mockIsLoading, streamingTimeoutRef,
                 currentStreamRef, sims, mockNextId, nextTimer, nSims,
                 nDeletes, halted>>

MockNext ==
  \/ (\E content \in MockInputs : MockSendMessage(content))
       /\ UNCHANGED apiVars
  \/ (\E deferred \in BOOLEAN : MockStopStreaming(deferred))
       /\ UNCHANGED apiVars
  \/ (\E deferred \in BOOLEAN : MockClearChat(deferred)) /\ UNCHANGED apiVars
  \/ (\E messageId \in 1..mockNextId : DeleteMessage(messageId))
       /\ UNCHANGED apiVars
  \/ (\E t \in timers, r \in ResponseIndexes, d \in ToolDelays :
         ReplyTimer(t, r, d))
       /\ UNCHANGED apiVars
  \/ (\E t \in timers : ToolDoneTimer(t)) /\ UNCHANGED apiVars
  \/ (\E t \in timers, d \in ToolDelays : StepTimer(t, d))
       /\ UNCHANGED apiVars
  \/ (\E t \in timers : StreamTimer(t)) /\ UNCHANGED apiVars
  \/ Advance /\ UNCHANGED apiVars

MockSpec == Init /\ [][MockNext]_vars

----------------------------------------------------------------------------
\* Vocabulary of the properties.

\* The session states of the controller, as the flags show them.
Idle == ~isConnecting /\ ~isLoading
Busy == isConnecting \/ isLoading

\* A stream is active from its request until its invocation returns.
ActiveStreams == {s \in Streams : pc[s] \in {"fetch", "read"}}

\* The step is a read continuation (every read delivers tokens).
ReadStep == lastOp'.op = "read" /\ delivered' # delivered

\* An item at which the loop returns.
IsTerminal(item) ==
  \/ item.kind = "done"
  \/ item.kind = "event" /\ item.e.type \in {"session_end", "error"}

\* The items of a chunk the loop reaches: those up to its first return.
RECURSIVE Reached(_)
Reached(items) ==
  IF items = <<>> THEN <<>>
  ELSE IF IsTerminal(Head(items)) THEN <<Head(items)>>
  ELSE <<Head(items)>> \o Reached(Tail(items))

\* An item that is not a dropped line.
NotBad(item) == item.kind # "bad"

\* What a chunk makes the loop dispatch: its items without the dropped lines.
Dispatched(chunk) == SelectSeq(DecodeChunk(chunk), NotBad)

\* The ids whose text events are among the items.
TextIds(items) ==
  {items[i].e.id : i \in {j \in 1..Len(items) :
      /\ items[j].kind = "event"
      /\ items[j].e.type \in {"text_chunk", "message_complete"}}}

\* The positions of the messages with a given id.
WithId(msgs, id) == {i \in 1..Len(msgs) : msgs[i].id = id}

\* The message created last for an id.
LastWithId(msgs, id) ==
  msgs[CHOOSE i \in WithId(msgs, id) : \A j \in WithId(msgs, id) : j <= i]

----------------------------------------------------------------------------
\* C1: sendMessage(text) is a no-op while the session is Connecting or
\* Streaming: no user message is appended, no request is issued and no flag
\* changes.
C1_SendIsNoopWhileBusy ==
  [][\A content \in UserInputs :
       (Busy /\ SendMessage(content))
         => (UNCHANGED hookState /\ UNCHANGED nStreams)]_vars

\* C2: at most one stream is active for the session at any time.
C2_AtMostOneActiveStream == Cardinality(ActiveStreams) <= 1

\* C3: stopStreaming() called while Connecting or Streaming leaves every
\* tool call that was running stopped, with the user-stopped error text and
\* an end time, every message whose id was in the streaming-id set
\* delivered, the streaming-id set empty and the session Idle.
C3_StopFinalizesAll ==
  [][(Busy /\ StopStreaming) =>
       /\ Len(messages') = Len(messages)
       /\ \A i \in 1..Len(messages) :
            /\ (messages[i].type = "tool_call" /\ messages[i].tool.status = "running")
                 => /\ messages'[i].tool.status = "stop"
                    /\ messages'[i].tool.error = UserStoppedError
                    /\ messages'[i].tool.ended
            /\ messages[i].id \in streaming => messages'[i].status = "delivered"
       /\ streaming' = {}
       /\ Idle']_vars

\* C4: while the stop flag is set, no event decoded from a response changes
\* the message list or the streaming-id set.
C4_NoEventAppliedWhileStopped ==
  [][(isStopped /\ ReadStep) =>
       (messages' = messages /\ streaming' = streaming)]_vars

\* a read continuation has decoded an event while the stop flag was set
C4_Witness ==
  /\ isStopped
  /\ lastOp.op = "read"
  /\ \E i \in 1..Len(DecodeChunk(lastOp.chunk)) :
       DecodeChunk(lastOp.chunk)[i].kind = "event"

\* C5: user cancellation is final and not an error: once stopStreaming() has
\* left the session Idle with no error, it stays Idle with no error until
\* the next sendMessage, retryLastMessage or clearChat, whatever the
\* in-flight connect or read delivers.  Stated for a session that has issued
\* a single request.
C5_StopIsFinal ==
  [][(/\ nStreams = 1
      /\ isStopped /\ Idle /\ connectionError = "null"
      /\ lastOp'.op \notin {"sendMessage", "retryLastMessage", "clearChat"})
       => (Idle' /\ connectionError' = "null")]_vars

\* C6: text_chunk deltas for a messageId followed by message_complete(full)
\* leave the message with the text full, whatever the deltas were, and with
\* the status delivered.
C6_CompleteOverwrites ==
  [][\A m \in MsgIds, f \in Fulls :
       (/\ ~isStopped
        /\ ReadStep
        /\ LET items == Reached(DecodeChunk(lastOp'.chunk))
           IN /\ items # <<>>
              /\ items[Len(items)] = Item("event", MessageComplete(m, f)))
         => /\ \A i \in WithId(messages', m) :
                 /\ messages'[i].text = f
                 /\ messages'[i].status = "delivered"
            /\ m \in streaming => WithId(messages', m) # {}]_vars

\* deltas "a", "b" were applied for m1, then message_complete("c")
C6_Witness ==
  /\ lastOp.op = "read"
  /\ LET items == Reached(DecodeChunk(lastOp.chunk))
     IN /\ items # <<>>
        /\ items[Len(items)] = Item("event", MessageComplete("m1", <<"c">>))
  /\ recv["m1"] = <<"a", "b">>
  /\ WithId(messages, "m1") # {}
  /\ LastWithId(messages, "m1").text = <<"c">>
  /\ LastWithId(messages, "m1").status = "delivered"

\* The text of the message of every streaming id is the deltas received for
\* that id, in the order received.
C7_TextIsItsDeltas ==
  \A m \in streaming :
    /\ WithId(messages, m) # {}
    /\ LastWithId(messages, m).text = recv[m]

\* A read changes the text of no message whose id none of its text events
\* carries.
C7_OtherIdsUntouched ==
  ReadStep =>
    /\ Len(messages') >= Len(messages)
    /\ \A i \in 1..Len(messages) :
         messages'[i].text # messages[i].text
           => messages[i].id \in TextIds(Reached(DecodeChunk(lastOp'.chunk)))

\* C7: before its message_complete, the text of the message of an id is the
\* concatenation, in the order received, of the deltas carrying that id,
\* however the deltas of different ids interleave, and a read changes the
\* text of no message whose id none of its text events carries.
C7_DeltasPerId == [][C7_OtherIdsUntouched /\ C7_TextIsItsDeltas']_vars

\* the deltas of m1 and m2 were interleaved: "a" for m1, "b" for m2, "b" for m1
C7_Witness ==
  /\ streaming = {"m1", "m2"}
  /\ lastOp.op = "read"
  /\ WithId(messages, "m1") # {} /\ WithId(messages, "m2") # {}
  /\ LastWithId(messages, "m1").text = <<"a", "b">>
  /\ LastWithId(messages, "m2").text = <<"b">>

\* C8: the events dispatched do not depend on how the body is split into
\* read chunks: two consecutive reads of a stream dispatch what one read of
\* both chunks together dispatches.
C8_SplitIndependent ==
  [][(lastOp.op = "read" /\ ReadStep /\ lastOp'.s = lastOp.s)
       => Dispatched(lastOp.chunk) \o Dispatched(lastOp'.chunk)
            = Dispatched(lastOp.chunk \o lastOp'.chunk)]_vars

\* C9: a data line that is not JSON is dropped: a read has the effect of the
\* valid lines of its chunk alone, in order, it sets no connection error of
\* its own and the loop keeps reading.
C9_BadLinesDropped ==
  [][ReadStep =>
       \E deferred \in BOOLEAN :
         LET st == ApplyItems(Ctl, Dispatched(lastOp'.chunk), deferred)
         IN /\ messages' = st.messages
            /\ streaming' = st.streaming
            /\ connectionError' = st.connectionError
            /\ isLoading' = st.isLoading
            /\ isConnecting' = st.isConnecting
            /\ (pc'[lastOp'.s] = "read") <=> (~st.returned /\ ~isStopped)]_vars

\* a chunk with a non-JSON line between two text_chunk lines was read, both
\* deltas were applied, no error was set and the loop reads on
C9_Witness ==
  /\ lastOp.op = "read"
  /\ LET items == DecodeChunk(lastOp.chunk)
     IN /\ Len(items) = 3
        /\ items[1].kind = "event"
        /\ items[2].kind = "bad"
        /\ items[3].kind = "event"
  /\ pc[lastOp.s] = "read"
  /\ connectionError = "null"
  /\ WithId(messages, "m1") # {}
  /\ LastWithId(messages, "m1").text = <<"a", "b">>

\* C10: a [DONE] line ends the stream successfully: it applies nothing to the
\* message list, nothing after it in the response is dispatched, the
\* streaming-id set is empty, no error is recorded and the session is Idle.
C10_DoneEndsStream ==
  [][(/\ ReadStep
      /\ LET items == Reached(DecodeChunk(lastOp'.chunk))
         IN items # <<>> /\ items[Len(items)].kind = "done")
       => /\ \E deferred \in BOOLEAN :
               LET items == Reached(DecodeChunk(lastOp'.chunk))
               IN messages' =
                    ApplyItems(Ctl, SubSeq(items, 1, Len(items) - 1), deferred).messages
          /\ pc'[lastOp'.s] = "done"
          /\ streaming' = {}
          /\ connectionError' = "null"
          /\ Idle']_vars

\* C11: a stream that reached Streaming leaves the session Idle when its
\* response ends, whichever way it ends ([DONE], session_end, an error event,
\* cancellation, a failed read, or the reader reporting done).  The stream
\* takes no step after its end, so the session is Idle eventually only if it
\* is Idle then.  Stated for a session that has issued a single request.
C11_StreamEndLeavesIdle ==
  [][\A s \in Streams :
       (nStreams = 1 /\ pc[s] = "read" /\ pc'[s] = "done") => Idle']_vars

\* C12: when an error event is dispatched, the error is recorded in
\* connectionError, every message whose id is in the streaming-id set at that
\* moment gets the status failed, the streaming-id set is emptied, the
\* session becomes Idle and the stream applies nothing more.  Stated for a
\* session that has issued a single request.
C12_ErrorEventFailsAll ==
  [][\A msg \in ErrorMessages :
       (/\ nStreams = 1
        /\ ReadStep
        /\ LET items == Reached(DecodeChunk(lastOp'.chunk))
           IN /\ items # <<>>
              /\ items[Len(items)] = Item("event", ErrorEvent(msg)))
         => LET items == Reached(DecodeChunk(lastOp'.chunk))
                before == ApplyItems(Ctl, SubSeq(items, 1, Len(items) - 1), FALSE)
            IN /\ connectionError' = IF msg = "" THEN DefaultStreamError ELSE msg
               /\ Len(messages') = Len(before.messages)
               /\ \A i \in 1..Len(before.messages) :
                    before.messages[i].id \in before.streaming
                      => messages'[i].status = "failed"
               /\ streaming' = {}
               /\ Idle'
               /\ pc'[lastOp'.s] = "done"]_vars

\* C13: a transport failure (a non-2xx response, a missing body, a rejected
\* fetch or a rejected read) gives one error outcome: connectionError is set,
\* the stream is over and sets nothing again, the session is Idle, the
\* message list is left as it was and the last user input is retained.
C13_TransportFailureOutcome ==
  [][\A s \in Streams :
       /\ \A err \in FetchErrors :
            FetchFail(s, err)
              => /\ connectionError' = err
                 /\ pc'[s] = "done"
                 /\ Idle'
                 /\ messages' = messages
                 /\ lastUserMessage' = lastUserMessage
                 /\ lastUserMessage' # NoText
       /\ ReadThrow(s)
            => /\ connectionError' = ReadError
               /\ pc'[s] = "done"
               /\ Idle'
               /\ messages' = messages
               /\ lastUserMessage' = lastUserMessage
               /\ lastUserMessage' # NoText]_vars

\* the request of the first message failed with a non-2xx status: the error
\* is shown, the session is Idle, the user message is in the list and the
\* input can be resent
C13_Witness ==
  /\ lastOp = Op("fetchFail", 1, <<>>)
  /\ connectionError = "http-status"
  /\ Idle
  /\ Len(messages) = 1
  /\ messages[1].sender = "user"
  /\ messages[1].text = <<"h">>
  /\ lastUserMessage = <<"h">>

FailedAttempt ==
  /\ ActiveStreams = {}
  /\ connectionError \in FetchErrors \cup {ReadError}

\* C15: retryLastMessage() re-sends the content of the most recent accepted
\* sendMessage() in a new request, and only after an attempt that ended in a
\* connection or network failure; otherwise (no earlier send, the attempt
\* completed or was stopped) it issues no request and changes no state.
\* Stated for the calls made while no stream is in flight.
C15_RetryOnlyAfterFailure ==
  [][(ActiveStreams = {} /\ RetryLastMessage) =>
       IF lastUserMessage # NoText /\ FailedAttempt
         THEN /\ nStreams' = nStreams + 1
              /\ req'[nStreams'].message = lastUserMessage
              /\ lastUserMessage' = lastUserMessage
         ELSE UNCHANGED <<hookState, nStreams>>]_vars

\* C16: clearChat() takes effect only when the session is Idle; when it does,
\* the message list is empty, the streaming-id set is empty, connectionError
\* is null and the session id is replaced by one that differs from the
\* previous id; every request carries the session id current when it is
\* issued.
C16_ClearOnlyWhenIdle ==
  [][/\ ClearChat =>
          IF Idle
            THEN /\ messages' = <<>>
                 /\ streaming' = {}
                 /\ connectionError' = "null"
                 /\ sessionId' # sessionId
            ELSE UNCHANGED hookState
     /\ nStreams' # nStreams => req'[nStreams'].sessionId = sessionId']_vars

\* C17: stopStreaming() is idempotent: called right after stopStreaming(), it
\* leaves the messages, the streaming-id set, the stop flag, the connection
\* flags, the error and the reader as the first call left them.
C17_StopIsIdempotent ==
  [][(lastOp.op \in StopOps /\ StopStreaming) =>
       UNCHANGED <<messages, streaming, isStopped, isLoading, isConnecting,
                   connectionError, readerRef, cancelled>>]_vars

\* stopStreaming() was called twice in a row on a session with a tool call
\* that the first call stopped
C17_Witness ==
  /\ lastOp.op = "stopStreamingAgain"
  /\ isStopped
  /\ \E i \in 1..Len(messages) :
       /\ messages[i].type = "tool_call"
       /\ messages[i].tool.status = "stop"
       /\ messages[i].tool.error = UserStoppedError

\* C18: a tool_call_end for tool id t patches the tool-call messages with
\* that tool id: the status becomes success when the event's status is
\* success and error otherwise, the result (and, on error, the error) is set,
\* the end time is set and the duration is the time since the start, which
\* is not negative; every other message, the other tool calls and the text
\* messages included, is left as it was.
C18_ToolCallEndFrame ==
  [][\A t \in ToolIds, status \in {"success", "error"} :
       (/\ ~isStopped
        /\ ReadStep
        /\ LET items == Reached(DecodeChunk(lastOp'.chunk))
           IN /\ items # <<>>
              /\ items[Len(items)] = Item("event", ToolCallEnd(t, status)))
         => LET items == Reached(DecodeChunk(lastOp'.chunk))
                before == ApplyItems(Ctl, SubSeq(items, 1, Len(items) - 1),
                                     FALSE).messages
            IN /\ Len(messages') = Len(before)
               /\ \A i \in 1..Len(before) :
                    IF before[i].type = "tool_call" /\ before[i].tool.id = t
                      THEN /\ messages'[i].tool.status = status
                           /\ messages'[i].tool.result = "result"
                           /\ status = "error" => messages'[i].tool.error = "result"
                           /\ messages'[i].tool.ended
                           /\ messages'[i].tool.duration
                                = delivered - before[i].tool.startTime
                           /\ messages'[i].tool.duration >= 0
                           /\ [messages'[i] EXCEPT !.tool = before[i].tool]
                                = before[i]
                      ELSE messages'[i] = before[i]]_vars

\* tool calls t1 and t2 were started, then tool_call_end(t1, success) came in
\* a later read: t1 succeeded after a positive time, t2 is still running
C18_Witness ==
  /\ lastOp.op = "read"
  /\ DecodeChunk(lastOp.chunk) = <<Item("event", ToolCallEnd("t1", "success"))>>
  /\ \E i, j \in 1..Len(messages) :
       /\ messages[i].type = "tool_call"
       /\ messages[i].tool.id = "t1"
       /\ messages[i].tool.status = "success"
       /\ messages[i].tool.duration > 0
       /\ messages[j].type = "tool_call"
       /\ messages[j].tool.id = "t2"
       /\ messages[j].tool.status = "running"

\* The statuses a tool call ends in.
TerminalToolStatus == {"success", "error", "stop"}

\* C19: the status of a tool call only moves forward: a tool call that is
\* success, error or stopped never changes again, whatever event or call
\* comes (a repeated tool_call_end for its tool id and the events of a later
\* stream included), so its end time is written once.
C19_ToolStatusMonotone ==
  [][\A i \in 1..Len(messages) :
       (/\ i <= Len(messages')
        /\ messages'[i].id = messages[i].id
        /\ messages[i].type = "tool_call"
        /\ messages[i].tool.status \in TerminalToolStatus)
         => messages'[i].tool = messages[i].tool]_vars

\* C20: message ids are unique in the list: no two messages have the same
\* id, whatever events came (a text_chunk for a message id that arrives after
\* the message_complete, the session_end or the stop of that id included).
C20_MessageIdsUnique ==
  \A i, j \in 1..Len(messages) :
    i # j => messages[i].id # messages[j].id

\* The body among Bodies that is the simple reply.
SimpleReplyId == CHOOSE b \in BodyIds : Bodies[b] = SimpleReply

\* The step is the read by which stream s, whose reads so far were the start
\* of the simple reply, receives the rest of it.
ReadsRestOfSimpleReply(s) ==
  /\ ReadStep
  /\ lastOp'.s = s
  /\ pc[s] = "read"
  /\ SimpleReplyId \in cands[s]
  /\ lastOp'.chunk = SubSeq(BodyTokens[SimpleReplyId], pos[s] + 1,
                            Len(BodyTokens[SimpleReplyId]))

\* C21: an accepted sendMessage(text) appends one user message with that text
\* and the status sent to the end of the list and issues the request, and
\* the session is Connecting; a successful response makes it Streaming; and
\* the first request of a session answered by text_chunk, message_complete
\* and [DONE] for one id leaves two messages, the user message (sent) and
\* the assistant message (delivered) with the complete text.
C21_SendThenSimpleReply ==
  [][/\ \A content \in UserInputs :
          (~SendRejected(content) /\ SendMessage(content))
            => /\ messages' = Append(messages, messages'[Len(messages')])
               /\ messages'[Len(messages')].sender = "user"
               /\ messages'[Len(messages')].text = content
               /\ messages'[Len(messages')].status = "sent"
               /\ nStreams' = nStreams + 1
               /\ req'[nStreams'].message = content
               /\ isConnecting' /\ ~isLoading'
     /\ \A s \in Streams : FetchOk(s) => (~isConnecting' /\ isLoading')
     /\ (nStreams = 1 /\ sessionId = 1 /\ ReadsRestOfSimpleReply(1))
          => /\ Len(messages') = 2
             /\ messages'[1].sender = "user"
             /\ messages'[1].text = req[1].message
             /\ messages'[1].status = "sent"
             /\ messages'[2].sender = "assistant"
             /\ messages'[2].id = "m1"
             /\ messages'[2].text = <<"c">>
             /\ messages'[2].status = "delivered"
             /\ Idle']_vars

\* "h" was sent and answered by the simple reply, read in more than one
\* chunk: the list is the user message and the delivered assistant message
C21_Witness ==
  /\ nStreams = 1
  /\ pc[1] = "done"
  /\ lastOp.op = "read"
  /\ lastOp.chunk = <<Tok("DONE", NoEvent)>>
  /\ Len(messages) = 2
  /\ messages[1].text = <<"h">>
  /\ messages[1].status = "sent"
  /\ messages[2].text = <<"c">>
  /\ messages[2].status = "delivered"
  /\ Idle

\* C22: a session_end event empties the streaming-id set, however many ids
\* are in it, and returns the session to Idle, and the stream applies
\* nothing after it.
C22_SessionEndEndsStream ==
  [][(/\ ReadStep
      /\ LET items == Reached(DecodeChunk(lastOp'.chunk))
         IN /\ items # <<>>
            /\ items[Len(items)] = Item("event", SessionEnd))
       => LET items == Reached(DecodeChunk(lastOp'.chunk))
              before == ApplyItems(Ctl, SubSeq(items, 1, Len(items) - 1), FALSE)
          IN /\ messages' = before.messages
             /\ streaming' = {}
             /\ pc'[lastOp'.s] = "done"
             /\ Idle']_vars

\* C23: a message_complete for message id m removes m from the streaming-id
\* set; isLoading becomes false on that event when the set is empty
\* afterwards, and keeps its value, so the session stays Streaming, while
\* other ids remain in the set.
C23_CompleteEndsLoadingWhenLast ==
  [][\A m \in MsgIds, f \in Fulls :
       (/\ ~isStopped
        /\ ReadStep
        /\ LET items == Reached(DecodeChunk(lastOp'.chunk))
           IN /\ items # <<>>
              /\ items[Len(items)] = Item("event", MessageComplete(m, f)))
         => LET items == Reached(DecodeChunk(lastOp'.chunk))
                before == ApplyItems(Ctl, SubSeq(items, 1, Len(items) - 1), FALSE)
            IN /\ streaming' = before.streaming \ {m}
               /\ streaming' = {} => ~isLoading'
               /\ streaming' # {} => isLoading' = before.isLoading]_vars

\* m1 and m2 were streaming and message_complete(m1) came: m2 remains in the
\* set and the session is still Streaming
C23_Witness ==
  /\ lastOp.op = "read"
  /\ LET items == Reached(DecodeChunk(lastOp.chunk))
     IN /\ items # <<>>
        /\ items[Len(items)] = Item("event", MessageComplete("m1", <<"c">>))
  /\ streaming = {"m2"}
  /\ isLoading
  /\ ~isConnecting

\* The message events among the items are each applied in Streaming: an item
\* that changes the message list finds isLoading true and isConnecting false.
\* The items are taken in order, each on the state the ones before it left.
RECURSIVE AppliedInStreaming(_, _)
AppliedInStreaming(st, items) ==
  IF items = <<>> \/ st.returned THEN TRUE
  ELSE /\ ApplyItem(st, Head(items), FALSE).messages # st.messages
            => (st.isLoading /\ ~st.isConnecting)
       /\ AppliedInStreaming(ApplyItem(st, Head(items), FALSE), Tail(items))

\* C24: stream events are applied only in Streaming: whenever a
\* tool_call_start, tool_call_end, text_chunk or message_complete event
\* changes the message list, isLoading is true and isConnecting is false at
\* that moment.  Stated for a session that has issued a single request.
C24_EventsOnlyInStreaming ==
  [][(nStreams = 1 /\ ReadStep)
       => AppliedInStreaming(Ctl, DecodeChunk(lastOp'.chunk))]_vars

\* The positions of the tool-call messages with a given tool id.
WithToolId(msgs, t) ==
  {i \in 1..Len(msgs) : msgs[i].type = "tool_call" /\ msgs[i].tool.id = t}

\* C25: a tool_call_start whose tool id is not in the list yet appends one
\* tool-call message with the status running and a start time; a
\* tool_call_start whose tool id is in the list patches that message and
\* appends none, so the list holds at most one tool-call message per tool
\* id.  Stated for a session that has issued a single request.
C25_ToolCallStartCreatesOrPatches ==
  [][\A t \in ToolIds :
       (/\ nStreams = 1
        /\ ~isStopped
        /\ ReadStep
        /\ LET items == Reached(DecodeChunk(lastOp'.chunk))
           IN /\ items # <<>>
              /\ items[Len(items)] = Item("event", ToolCallStart(t)))
         => LET items == Reached(DecodeChunk(lastOp'.chunk))
                before == ApplyItems(Ctl, SubSeq(items, 1, Len(items) - 1),
                                     FALSE).messages
            IN /\ IF WithToolId(before, t) = {}
                    THEN /\ Len(messages') = Len(before) + 1
                         /\ SubSeq(messages', 1, Len(before)) = before
                         /\ messages'[Len(messages')].type = "tool_call"
                         /\ messages'[Len(messages')].tool.id = t
                         /\ messages'[Len(messages')].tool.status = "running"
                         /\ messages'[Len(messages')].tool.startTime # NoTime
                    ELSE Len(messages') = Len(before)
               /\ Cardinality(WithToolId(messages', t)) = 1]_vars

\* C26: whenever the session is Idle, with both flags false and no stream
\* connecting or reading, no text message has the status pending: every way
\* a stream ends leaves the text messages it created delivered or failed.
\* Stated for a session that has issued a single request.
C26_NoPendingTextWhenIdle ==
  (nStreams = 1 /\ Idle /\ ActiveStreams = {})
    => \A i \in 1..Len(messages) :
         messages[i].type = "text" => messages[i].status # "pending"

\* C27: whenever the session is Idle, with both flags false and no stream
\* connecting or reading, no tool-call message has the status running: every
\* way a stream ends leaves each tool call in a terminal status.  Stated for
\* a session that has issued a single request.
C27_NoRunningToolWhenIdle ==
  (nStreams = 1 /\ Idle /\ ActiveStreams = {})
    => \A i \in 1..Len(messages) :
         messages[i].type = "tool_call" => messages[i].tool.status # "running"

\* C28: a delivered text message is immutable: no stream event (a further
\* text_chunk or message_complete with its message id included) changes the
\* text or the status of a text message that has the status delivered.
\* Stated for a session that has issued a single request.
C28_DeliveredIsImmutable ==
  [][(nStreams = 1 /\ ReadStep)
       => \A i \in 1..Len(messages) :
            (/\ i <= Len(messages')
             /\ messages[i].type = "text"
             /\ messages[i].status = "delivered")
              => /\ messages'[i].text = messages[i].text
                 /\ messages'[i].status = messages[i].status]_vars

\* C29: after clearChat() the message list stays empty until the next
\* sendMessage: no step other than an accepted sendMessage puts a message
\* into the list of a cleared session, and no stream whose request carried
\* an earlier session id changes the list of the current session.
C29_ClearedStaysEmpty ==
  [][/\ (/\ sessionId > 1
         /\ messages = <<>>
         /\ ~ \E content \in UserInputs :
                ~SendRejected(content) /\ SendMessage(content))
          => messages' = <<>>
     /\ (ReadStep /\ req[lastOp'.s].sessionId # sessionId)
          => messages' = messages]_vars

----------------------------------------------------------------------------
\* A timer callback of the simulated hook runs in this step.
TimerStep == mockLastOp'.op \in {"reply", "toolDone", "step", "stream"}

\* C30: in useStreamingChat, after stopStreaming() or clearChat() the
\* simulated reply is halted: until the next sendMessage, whichever timer
\* was pending at the call, no timer callback sets isLoading to true, or
\* appends or modifies a message.  Stated for a session with a single
\* sendMessage, in which one timer is pending at a time.
C30_StopHaltsSimulation ==
  [][(nSims = 1 /\ halted /\ TimerStep)
       => (mockIsLoading' = FALSE /\ mockMessages' = mockMessages)]_vars

====
